---- MODULE Spec2Model ----
(***************************************************************************)
(* Model of the log-structured key-value store of kvs/src/lib.rs.          *)
(*                                                                         *)
(* The data directory holds two named files, kvs.log and kvs-comp.log.     *)
(* A file is a sequence of bytes.  The engine (KvStore) holds an open      *)
(* handle on one inode, an index key -> byte offset, and a garbage counter.*)
(* File-system calls can fail; a failing write_all can leave a prefix of   *)
(* the bytes behind.  Every public operation is one action.                *)
(***************************************************************************)
EXTENDS Integers, Sequences, FiniteSets, TLC

\* ---------------------------------------------------------------- bounds
MaxOps == 4          \* operations (open/get/set/remove/close) per behaviour
MaxFaults == 1       \* injected file-system failures per behaviour
MaxPartial == 1      \* bytes a failing write_all can leave behind

\* ------------------------------------------------------ program constants
COMPACTION_THRESHOLD == 100

\* serde variant indices of enum KvCommand
SET_IDX == 0
RM_IDX == 1
\* first byte of a short string in the record encoding: marker + length
FIXSTR == 160
FIXSTR_MAX_LEN == 31
\* bytes below this value are one-byte UTF-8 characters
ASCII_END == 128

\* ------------------------------------------------------------ input sets
\* keys and values are strings, written as sequences of bytes
KeyA == <<97>>
KeyB == <<98>>
Keys == {KeyA, KeyB}
Values == {<<120>>, <<121, 121>>}

VARIABLES
  kvs_log,    \* the file named kvs.log: [exists, bytes]
  comp_log,   \* the file named kvs-comp.log: [exists, bytes]
  pc,         \* "closed" (no KvStore value alive) or "open"
  index,      \* KvStore.index: key -> offset
  garbage,    \* KvStore.garbage
  detached,   \* TRUE when KvStore.log is a handle on an inode no longer named kvs.log
  orphan,     \* the bytes of that unnamed inode
  cursor,     \* read/write position of KvStore.log
  last,       \* the most recent call and its outcome
  snap,       \* engine and disk as they were when the last compaction started
  closed_view,\* what get returned for every key when the store was last closed, if it was
  tomb,       \* keys removed with Ok and not set since, in this session
  session,    \* how the current session began and whether every call of it returned Ok
  ops,        \* calls made so far
  faults      \* file-system failures injected so far

vars == <<kvs_log, comp_log, pc, index, garbage, detached, orphan, cursor,
          last, snap, closed_view, tomb, session, ops, faults>>

\* ------------------------------------------------------------- encoding
NoFile == [exists |-> FALSE, bytes |-> <<>>]
File(b) == [exists |-> TRUE, bytes |-> b]

SetCmd(k, v) == [tag |-> "Set", key |-> k, value |-> v]
RmCmd(k) == [tag |-> "Rm", key |-> k, value |-> <<>>]

EncodeStr(s) == <<FIXSTR + Len(s)>> \o s

\* encode::to_vec(&cmd)
Encode(cmd) ==
  IF cmd.tag = "Set"
  THEN <<SET_IDX>> \o EncodeStr(cmd.key) \o EncodeStr(cmd.value)
  ELSE <<RM_IDX>> \o EncodeStr(cmd.key)

DecodeFail == [ok |-> FALSE, cmd |-> RmCmd(<<>>), next |-> 0]

\* a string starting at offset pos: header byte, then that many bytes, all ASCII
DecodeStr(bytes, pos) ==
  IF pos >= Len(bytes) THEN [ok |-> FALSE, str |-> <<>>, next |-> pos]
  ELSE LET h == bytes[pos + 1]
           n == h - FIXSTR
       IN IF h < FIXSTR \/ n > FIXSTR_MAX_LEN \/ pos + 1 + n > Len(bytes)
          THEN [ok |-> FALSE, str |-> <<>>, next |-> pos]
          ELSE IF \E i \in (pos + 2)..(pos + 1 + n) : bytes[i] >= ASCII_END
          THEN [ok |-> FALSE, str |-> <<>>, next |-> pos]
          ELSE [ok |-> TRUE, str |-> SubSeq(bytes, pos + 2, pos + 1 + n),
                next |-> pos + 1 + n]

\* the variant Set(key, value), from its two decoded strings
DecodeSet(k, v) ==
  IF k.ok /\ v.ok
  THEN [ok |-> TRUE, cmd |-> SetCmd(k.str, v.str), next |-> v.next]
  ELSE DecodeFail

\* the variant Rm(key), from its decoded string
DecodeRm(k) ==
  IF k.ok THEN [ok |-> TRUE, cmd |-> RmCmd(k.str), next |-> k.next] ELSE DecodeFail

\* the value string of a Set follows its key string k
DecodeSetAfterKey(bytes, k) == DecodeSet(k, DecodeStr(bytes, k.next))

\* KvCommand::deserialize(&mut log) with the cursor at offset pos
Decode(bytes, pos) ==
  IF pos >= Len(bytes) THEN DecodeFail
  ELSE IF bytes[pos + 1] = SET_IDX THEN DecodeSetAfterKey(bytes, DecodeStr(bytes, pos + 1))
  ELSE IF bytes[pos + 1] = RM_IDX THEN DecodeRm(DecodeStr(bytes, pos + 1))
  ELSE DecodeFail

\* ---------------------------------------------------------------- index
EmptyIndex == [k \in {} |-> 0]

\* HashMap::insert
Insert(idx, k, p) == [x \in DOMAIN idx \cup {k} |-> IF x = k THEN p ELSE idx[x]]

\* HashMap::remove
Delete(idx, k) == [x \in DOMAIN idx \ {k} |-> idx[x]]

\* ------------------------------------------------------------- replay
\* the Set arm of the replay loop
ReplaySet(idx, g, key, pos) ==
  [index |-> Insert(idx, key, pos),
   garbage |-> IF key \in DOMAIN idx THEN g + 1 ELSE g,
   pos |-> 0, done |-> FALSE]

\* faulty variant: a Remove counts itself and the Set it cancels
ReplayRm_CountsBoth(idx, g, key) ==
  [index |-> Delete(idx, key), garbage |-> IF key \in DOMAIN idx THEN g + 2 ELSE g + 1,
   pos |-> 0, done |-> FALSE]

\* the Rm arm of the replay loop
ReplayRm(idx, g, key) ==
  [index |-> Delete(idx, key), garbage |-> g + 1, pos |-> 0, done |-> FALSE]

\* faulty variant: the position is read after the record was decoded
ReplayMatch_PosAfter(st, d) ==
  IF d.ok
  THEN [(IF d.cmd.tag = "Set"
         THEN ReplaySet(st.index, st.garbage, d.cmd.key, d.next)
         ELSE ReplayRm(st.index, st.garbage, d.cmd.key)) EXCEPT !.pos = d.next]
  ELSE [st EXCEPT !.done = TRUE]

\* the body of the loop of open on the decoding result d of the record at st.pos
ReplayMatch(st, d) ==
  IF d.ok
  THEN [(IF d.cmd.tag = "Set"
         THEN ReplaySet(st.index, st.garbage, d.cmd.key, st.pos)
         ELSE ReplayRm(st.index, st.garbage, d.cmd.key)) EXCEPT !.pos = d.next]
  ELSE [st EXCEPT !.done = TRUE]

\* one turn of the loop of open, from the state st = [index, garbage, pos, done]
ReplayStep(bytes, st) == ReplayMatch(st, Decode(bytes, st.pos))

RECURSIVE ReplayLoop(_, _)
\* the loop of open, turn after turn until the break
ReplayLoop(bytes, st) ==
  IF st.done THEN st
  ELSE ReplayLoop(bytes, CHOOSE r \in {ReplayStep(bytes, st)} : TRUE)

\* the loop of open: decode from pos until a record does not decode
Replay(bytes, pos, idx, g) ==
  ReplayLoop(bytes, [index |-> idx, garbage |-> g, pos |-> pos, done |-> FALSE])

\* ---------------------------------------------------------------- get
NotFound == [res |-> "None", value |-> <<>>]
GetErr == [res |-> "GetError", value |-> <<>>]

\* the closure of get on the decoding result d of the record the index points to
GetMatch(key, d) ==
  IF d.ok /\ d.cmd.tag = "Set"
  THEN IF d.cmd.key = key THEN [res |-> "Some", value |-> d.cmd.value] ELSE GetErr
  ELSE GetErr

\* what get(key) returns on index idx over the log bytes
GetResult(idx, bytes, key) ==
  IF key \notin DOMAIN idx THEN NotFound ELSE GetMatch(key, Decode(bytes, idx[key]))

\* position of the handle after reading the record at offset ptr
ReadCursor(ptr, d) == IF d.ok THEN d.next ELSE ptr

\* position of the handle after get(key)
GetCursor(idx, bytes, key, cur) ==
  IF key \notin DOMAIN idx THEN cur ELSE ReadCursor(idx[key], Decode(bytes, idx[key]))

\* what get returns for every key of the index
View(idx, bytes) == [k \in DOMAIN idx |-> GetResult(idx, bytes, k)]

\* ------------------------------------------------------------ the engine
\* the fields of a KvStore value, and the two named files of the directory
Engine(idx, g, det, orph, cur) ==
  [index |-> idx, garbage |-> g, detached |-> det, orphan |-> orph, cursor |-> cur]
Disk(kvs, comp) == [kvs |-> kvs, comp |-> comp]

NoEngine == Engine(EmptyIndex, 0, FALSE, <<>>, 0)

\* the bytes behind the handle KvStore.log
EngLog(e, d) == IF e.detached THEN e.orphan ELSE d.kvs.bytes

\* the engine and the directory with bytes b behind the handle, the handle at cur
PutLog(e, d, b, cur) ==
  IF e.detached
  THEN [e |-> [e EXCEPT !.orphan = b, !.cursor = cur], d |-> d]
  ELSE [e |-> [e EXCEPT !.cursor = cur], d |-> [d EXCEPT !.kvs = File(b)]]

\* faulty variant: write_log writes where the handle stands
SeekEnd_AtCursor(bytes, cur) == cur

\* seek(SeekFrom::End(0)) with the handle at cur: the offset write_log returns
SeekEnd(bytes, cur) == Len(bytes)

\* data written into a file holding base, starting at offset at
WriteAt(base, at, data) ==
  SubSeq(base, 1, at) \o data \o SubSeq(base, at + Len(data) + 1, Len(base))

\* write_all(&bytes) at offset pos of the log; w = -1: all bytes are written;
\* w >= 0: the write fails after w bytes
WriteAll(e, d, pos, bytes, w) ==
  [ok |-> w < 0, pos |-> pos,
   put |-> PutLog(e, d, WriteAt(EngLog(e, d), pos, IF w < 0 THEN bytes ELSE SubSeq(bytes, 1, w)),
                  pos + (IF w < 0 THEN Len(bytes) ELSE w))]

\* write_log(cmd): seek to the end, encode, write
WriteLog(e, d, cmd, w) ==
  WriteAll(e, d, SeekEnd(EngLog(e, d), e.cursor), Encode(cmd), w)

\* ----------------------------------------------------------- compaction
\* faulty variant: compaction starts only above the threshold
NeedsCompaction_Above(g) == g > COMPACTION_THRESHOLD

\* the test at the head of maybe_compact_logs
NeedsCompaction(g) == ~(g < COMPACTION_THRESHOLD)

\* OpenOptions::new().write(true).create(true).open(clog_path): the bytes of
\* the opened file; an existing file is opened as it is
OpenCompFile(comp) == IF comp.exists THEN comp.bytes ELSE <<>>

\* faulty variant: the offset in the new file does not advance
NextPos_NoAdvance(new_pos, bytes) == new_pos

\* new_pos += bytes.len()
NextPos(new_pos, bytes) == new_pos + Len(bytes)

\* failure points of one compaction: none, or an I/O error at a stage; for the
\* rewrite loop, while handling the at-th key with n bytes of its record written
NoFault == [stage |-> "none", at |-> 0, n |-> 0]
CompFaults(nkeys) ==
  {NoFault}
  \cup {[stage |-> s, at |-> 0, n |-> 0] : s \in {"create", "sync", "rename", "reopen"}}
  \cup {[stage |-> "rewrite", at |-> i, n |-> m] : i \in 1..nkeys, m \in 0..MaxPartial}

\* faulty variant: offsets in the new file are counted from the position of the
\* old log's cursor
RewriteStart_AtCursor(idx, cur) ==
  [ok |-> TRUE, err |-> "-", out |-> <<>>, new_pos |-> cur, index |-> idx, cursor |-> cur]

\* the state of the rewrite loop before its first turn
RewriteStart(idx, cur) ==
  [ok |-> TRUE, err |-> "-", out |-> <<>>, new_pos |-> 0, index |-> idx, cursor |-> cur]

\* the record of key re-encoded and written to the new file, rs being the state
\* of the loop; w as in WriteAll
RewriteWrite(key, bytes, next, rs, w) ==
  IF w < 0
  THEN [rs EXCEPT !.out = @ \o bytes, !.index = Insert(@, key, rs.new_pos),
                  !.new_pos = NextPos(@, bytes), !.cursor = next]
  ELSE [rs EXCEPT !.ok = FALSE, !.err = "IoError", !.cursor = next,
                  !.out = @ \o SubSeq(bytes, 1, IF w < Len(bytes) THEN w ELSE Len(bytes) - 1)]

\* one turn of the for loop of maybe_compact_logs: d is the decoding result of
\* the record at ptr; w = 0: the seek fails; w > 0: write_all fails after w bytes
RewriteKey(key, ptr, d, rs, w) ==
  IF w = 0 THEN [rs EXCEPT !.ok = FALSE, !.err = "IoError"]
  ELSE IF ~(d.ok /\ d.cmd.tag = "Set")
  THEN [rs EXCEPT !.ok = FALSE, !.err = "CompactionError", !.cursor = ReadCursor(ptr, d)]
  ELSE RewriteWrite(key, Encode(SetCmd(key, d.cmd.value)), d.next, rs, w)

RECURSIVE RewriteLoop(_, _, _, _, _, _)
\* the for loop of maybe_compact_logs over the keys in iteration order `order`
RewriteLoop(order, i, idx, elog, rs, cf) ==
  IF i > Len(order) \/ ~rs.ok THEN rs
  ELSE RewriteLoop(order, i + 1, idx, elog,
                   RewriteKey(order[i], idx[order[i]], Decode(elog, idx[order[i]]), rs,
                              IF cf.stage = "rewrite" /\ cf.at = i THEN cf.n ELSE -1),
                   cf)

\* faulty variant: the index of the old log is kept after the log was replaced
CompactFinish_KeepIndex(e, d, cf, rw, written) ==
  IF ~rw.ok \/ cf.stage \in {"sync", "rename"}
  THEN [ran |-> "fail", err |-> IF rw.ok THEN "IoError" ELSE rw.err,
        e |-> [e EXCEPT !.cursor = rw.cursor],
        d |-> [d EXCEPT !.comp = File(written)]]
  ELSE IF cf.stage = "reopen"
  THEN [ran |-> "fail", err |-> "IoError",
        e |-> [e EXCEPT !.cursor = rw.cursor, !.detached = TRUE, !.orphan = EngLog(e, d)],
        d |-> Disk(File(written), NoFile)]
  ELSE [ran |-> "ok", err |-> "-",
        e |-> Engine(e.index, 0, FALSE, <<>>, 0),
        d |-> Disk(File(written), NoFile)]

\* maybe_compact_logs from the end of the for loop on; rw is the state the loop
\* ended in and written the bytes of kvs-comp.log
CompactFinish(e, d, cf, rw, written) ==
  IF ~rw.ok \/ cf.stage \in {"sync", "rename"}
  THEN [ran |-> "fail", err |-> IF rw.ok THEN "IoError" ELSE rw.err,
        e |-> [e EXCEPT !.cursor = rw.cursor],
        d |-> [d EXCEPT !.comp = File(written)]]
  ELSE IF cf.stage = "reopen"
  THEN [ran |-> "fail", err |-> "IoError",
        e |-> [e EXCEPT !.cursor = rw.cursor, !.detached = TRUE, !.orphan = EngLog(e, d)],
        d |-> Disk(File(written), NoFile)]
  ELSE [ran |-> "ok", err |-> "-",
        e |-> Engine(rw.index, 0, FALSE, <<>>, 0),
        d |-> Disk(File(written), NoFile)]

\* maybe_compact_logs from the creation of kvs-comp.log on
CompactRewrite(e, d, cf, rw) ==
  CompactFinish(e, d, cf, rw, WriteAt(OpenCompFile(d.comp), 0, rw.out))

\* maybe_compact_logs on engine e and directory d
Compact(e, d, cf, order) ==
  IF ~NeedsCompaction(e.garbage)
  THEN [ran |-> "none", err |-> "-", e |-> e, d |-> d]
  ELSE IF cf.stage = "create"
  THEN [ran |-> "fail", err |-> "IoError", e |-> e, d |-> d]
  ELSE CompactRewrite(e, d, cf,
         RewriteLoop(order, 1, e.index, EngLog(e, d), RewriteStart(e.index, e.cursor), cf))

\* ---------------------------------------------------------- the calls
\* iteration orders of a HashMap with key set S
Orders(S) ==
  {f \in [1..Cardinality(S) -> S] : \A i, j \in 1..Cardinality(S) : f[i] = f[j] => i = j}

\* outcomes of write_all on a record of len bytes: -1 is success
WriteOutcomes(len) == {-1} \cup {w \in 0..MaxPartial : w < len}

NoSnap == [index |-> EmptyIndex, garbage |-> 0, kvs |-> <<>>, elog |-> <<>>,
           view |-> EmptyIndex]

\* engine e and directory d when a compaction starts
SnapOf(e, d) ==
  [index |-> e.index, garbage |-> e.garbage, kvs |-> d.kvs.bytes,
   elog |-> EngLog(e, d), view |-> View(e.index, EngLog(e, d))]

Call(op, k, v, res, had, appended, ran) ==
  [op |-> op, key |-> k, value |-> v, res |-> res, had |-> had,
   append |-> appended, compacted |-> ran]

\* a log made of complete records followed by a proper prefix of one record
Cmds == {SetCmd(k, v) : k \in Keys, v \in Values} \cup {RmCmd(k) : k \in Keys}
IsCutRecord(rest) ==
  /\ rest # <<>>
  /\ \E c \in Cmds : /\ Len(rest) < Len(Encode(c))
                     /\ rest = SubSeq(Encode(c), 1, Len(rest))
PartialTail(bytes) ==
  IsCutRecord(SubSeq(bytes, Replay(bytes, 0, EmptyIndex, 0).pos + 1, Len(bytes)))

Here == Engine(index, garbage, detached, orphan, cursor)
Dir == Disk(kvs_log, comp_log)

\* the variables of the engine and of the directory after a call
Becomes(e, d) ==
  /\ index' = e.index
  /\ garbage' = e.garbage
  /\ detached' = e.detached
  /\ orphan' = e.orphan
  /\ cursor' = e.cursor
  /\ kvs_log' = d.kvs
  /\ comp_log' = d.comp

\* one more call, nfaults more injected failures
Budget(nfaults) ==
  /\ ops < MaxOps
  /\ faults + nfaults <= MaxFaults
  /\ ops' = ops + 1
  /\ faults' = faults + nfaults

Faults(w, cf) == (IF w < 0 THEN 0 ELSE 1) + (IF cf.stage = "none" THEN 0 ELSE 1)

\* the iteration order of index.iter_mut() and the failure point of one call of
\* maybe_compact_logs; there is nothing to choose when it returns at its head
CompChoices(e, evaluated) ==
  IF evaluated /\ NeedsCompaction(e.garbage)
  THEN {[cf |-> cf, order |-> order] :
          cf \in CompFaults(Cardinality(DOMAIN e.index)), order \in Orders(DOMAIN e.index)}
  ELSE {[cf |-> NoFault, order |-> <<>>]}

\* what open returns: the error of maybe_compact_logs, else Ok
OpenReturn(ran, err) == IF ran = "fail" THEN err ELSE "Ok"

\* open after maybe_compact_logs returned c; e0 is the KvStore value built from
\* the replay
OpenCompact(e0, d0, c, partial) ==
  /\ IF c.ran = "fail"
     THEN Becomes(NoEngine, c.d) /\ pc' = "closed"
     ELSE Becomes(c.e, c.d) /\ pc' = "open"
  /\ snap' = IF c.ran = "none" THEN NoSnap ELSE SnapOf(e0, d0)
  /\ last' = Call("open", <<>>, <<>>, OpenReturn(c.ran, c.err), partial, "-", c.ran)

\* open from the end of the replay loop on
OpenReplayed(e0, d0, partial) ==
  \E ch \in CompChoices(e0, TRUE) :
    /\ Budget(Faults(-1, ch.cf))
    /\ \E c \in {Compact(e0, d0, ch.cf, ch.order)} : OpenCompact(e0, d0, c, partial)

\* the KvStore value open builds from the state r its replay loop ended in
OpenStore(r) == Engine(r.index, r.garbage, FALSE, <<>>, r.pos)

\* a session before its first call
NoSession == [partial |-> FALSE, whole |-> TRUE, clean |-> TRUE]

\* the session an open begins: partial when the log ended in a cut record, whole
\* when the replay loop read the log to its last byte
SessionOf(bytes, r) ==
  [partial |-> IsCutRecord(SubSeq(bytes, r.pos + 1, Len(bytes))),
   whole |-> r.pos = Len(bytes),
   clean |-> TRUE]

\* KvStore::open; f: opening the log file fails
Open(f) ==
  /\ pc = "closed"
  /\ UNCHANGED <<closed_view, tomb>>
  /\ IF f
     THEN /\ Budget(1)
          /\ UNCHANGED <<kvs_log, comp_log, pc, index, garbage, detached, orphan, cursor,
                         session>>
          /\ snap' = NoSnap
          /\ last' = Call("open", <<>>, <<>>, "IoError", FALSE, "-", "none")
     ELSE \E r \in {Replay(kvs_log.bytes, 0, EmptyIndex, 0)} :
            /\ OpenReplayed(OpenStore(r), Disk(File(kvs_log.bytes), comp_log),
                            IsCutRecord(SubSeq(kvs_log.bytes, r.pos + 1, Len(kvs_log.bytes))))
            /\ session' = SessionOf(kvs_log.bytes, r)

\* faulty variant: get reads where the handle stands, without the seek
Get_NoSeek(key) ==
  /\ pc = "open"
  /\ Budget(0)
  /\ \E g \in {IF key \notin DOMAIN index THEN NotFound
                ELSE GetMatch(key, Decode(EngLog(Here, Dir), cursor))} :
       last' = Call("get", key, g.value, g.res, key \in DOMAIN index, "-", "none")
  /\ cursor' = IF key \notin DOMAIN index THEN cursor
                ELSE ReadCursor(cursor, Decode(EngLog(Here, Dir), cursor))
  /\ snap' = NoSnap
  /\ UNCHANGED <<kvs_log, comp_log, pc, index, garbage, detached, orphan, closed_view, tomb,
                 session>>

\* KvStore::get
Get(key) ==
  /\ pc = "open"
  /\ Budget(0)
  /\ \E g \in {GetResult(index, EngLog(Here, Dir), key)} :
       last' = Call("get", key, g.value, g.res, key \in DOMAIN index, "-", "none")
  /\ cursor' = GetCursor(index, EngLog(Here, Dir), key, cursor)
  /\ snap' = NoSnap
  /\ UNCHANGED <<kvs_log, comp_log, pc, index, garbage, detached, orphan, closed_view, tomb,
                 session>>

\* faulty variant: the result of maybe_compact_logs is dropped
MutReturn_IgnoreCompaction(appended, ran, err) == IF ~appended THEN "IoError" ELSE "Ok"

\* what set and remove return after the key test: the error of write_log, else
\* the error of maybe_compact_logs, else Ok
MutReturn(appended, ran, err) ==
  IF ~appended THEN "IoError" ELSE IF ran = "fail" THEN err ELSE "Ok"

\* faulty variant: the garbage counter is raised before the record is written
AppendFailed_Counted(op, key, value, had, wl) ==
  /\ Budget(1)
  /\ Becomes([wl.put.e EXCEPT !.garbage = @ + 1], wl.put.d)
  /\ snap' = NoSnap
  /\ last' = Call(op, key, value, MutReturn(FALSE, "none", "-"), had, "fail", "none")
  /\ UNCHANGED tomb

\* set or remove when write_log returned an error
AppendFailed(op, key, value, had, wl) ==
  /\ Budget(1)
  /\ Becomes(wl.put.e, wl.put.d)
  /\ snap' = NoSnap
  /\ last' = Call(op, key, value, MutReturn(FALSE, "none", "-"), had, "fail", "none")
  /\ UNCHANGED tomb

\* faulty variant: a replaced key is not counted as garbage
SetIndex_NoCount(e, key, pos, had) == [e EXCEPT !.index = Insert(@, key, pos)]

\* the fields of the store after set updated its index
SetIndex(e, key, pos, had) ==
  [e EXCEPT !.index = Insert(@, key, pos), !.garbage = IF had THEN @ + 1 ELSE @]

\* set after the index update: compaction is evaluated when the key was replaced
SetCompact(e1, d1, had, cf, order) ==
  IF had THEN Compact(e1, d1, cf, order)
  ELSE [ran |-> "none", err |-> "-", e |-> e1, d |-> d1]

\* set from the index update on
SetApplied(key, value, had, e1, d1) ==
  /\ \E ch \in CompChoices(e1, had) :
       /\ Budget(Faults(-1, ch.cf))
       /\ \E c \in {SetCompact(e1, d1, had, ch.cf, ch.order)} :
            /\ Becomes(c.e, c.d)
            /\ snap' = IF c.ran = "none" THEN NoSnap ELSE SnapOf(e1, d1)
            /\ last' = Call("set", key, value, MutReturn(TRUE, c.ran, c.err), had, "ok", c.ran)
  /\ tomb' = tomb \ {key}

\* KvStore::set
Set(key, value, w) ==
  /\ pc = "open"
  /\ w \in WriteOutcomes(Len(Encode(SetCmd(key, value))))
  /\ UNCHANGED <<pc, closed_view>>
  /\ \E wl \in {WriteLog(Here, Dir, SetCmd(key, value), w)} :
       IF ~wl.ok
       THEN AppendFailed("set", key, value, key \in DOMAIN index, wl)
       ELSE SetApplied(key, value, key \in DOMAIN index,
                       SetIndex(wl.put.e, key, wl.pos, key \in DOMAIN index), wl.put.d)
  /\ session' = [session EXCEPT !.clean = @ /\ last'.res = "Ok"]

\* faulty variant: remove leaves the key in the index
RemoveIndex_KeepKey(e, key) == [e EXCEPT !.garbage = @ + 1]

\* the fields of the store after remove updated its index
RemoveIndex(e, key) == [e EXCEPT !.index = Delete(@, key), !.garbage = @ + 1]

\* remove from the index update on
RemoveApplied(key, e1, d1) ==
  \E ch \in CompChoices(e1, TRUE) :
    /\ Budget(Faults(-1, ch.cf))
    /\ \E c \in {Compact(e1, d1, ch.cf, ch.order)} :
         /\ Becomes(c.e, c.d)
         /\ snap' = IF c.ran = "none" THEN NoSnap ELSE SnapOf(e1, d1)
         /\ last' = Call("remove", key, <<>>, MutReturn(TRUE, c.ran, c.err), TRUE, "ok", c.ran)
         /\ tomb' = IF c.ran = "fail" THEN tomb ELSE tomb \cup {key}

\* faulty variant: remove does not test for the key
KeyMissing_Never(idx, key) == FALSE

\* the test at the head of remove
KeyMissing(idx, key) == ~(key \in DOMAIN idx)

\* KvStore::remove
Remove(key, w) ==
  /\ pc = "open"
  /\ UNCHANGED <<pc, closed_view>>
  /\ IF KeyMissing(index, key)
     THEN /\ Budget(0)
          /\ w = -1
          /\ last' = Call("remove", key, <<>>, "RmKeyNotFoundError", FALSE, "-", "none")
          /\ snap' = NoSnap
          /\ UNCHANGED <<kvs_log, comp_log, index, garbage, detached, orphan, cursor, tomb>>
     ELSE /\ w \in WriteOutcomes(Len(Encode(RmCmd(key))))
          /\ \E wl \in {WriteLog(Here, Dir, RmCmd(key), w)} :
               IF ~wl.ok
               THEN AppendFailed("remove", key, <<>>, TRUE, wl)
               ELSE RemoveApplied(key, RemoveIndex(wl.put.e, key), wl.put.d)
  /\ session' = [session EXCEPT !.clean = @ /\ last'.res = "Ok"]

\* the KvStore value is dropped: its file handle is closed
Close ==
  /\ pc = "open"
  /\ Budget(0)
  /\ pc' = "closed"
  /\ closed_view' = [valid |-> TRUE, view |-> View(index, EngLog(Here, Dir)),
                      garbage |-> garbage, session |-> session]
  /\ UNCHANGED session
  /\ Becomes(NoEngine, Dir)
  /\ tomb' = {}
  /\ snap' = NoSnap
  /\ last' = Call("close", <<>>, <<>>, "Ok", FALSE, "-", "none")

\* ------------------------------------------------------- initial states
\* n copies of the bytes s
Repeat(s, n) == [i \in 1..(n * Len(s)) |-> s[((i - 1) % Len(s)) + 1]]

\* a log left by earlier runs: one Set of key b, then n Sets of key a
Heavy(n) ==
  Encode(SetCmd(KeyB, <<121, 121>>)) \o Repeat(Encode(SetCmd(KeyA, <<120>>)), n)

\* the first bytes of a record whose write was cut short
CutRecord == SubSeq(Encode(SetCmd(KeyA, <<120>>)), 1, 2)

InitLogs ==
  { NoFile,
    File(Encode(SetCmd(KeyA, <<120>>)) \o CutRecord),
    File(Heavy(COMPACTION_THRESHOLD)),
    File(Heavy(COMPACTION_THRESHOLD + 1) \o CutRecord) }

\* a directory left by a run in which compaction failed twice: the first time
\* inside a set, after it had written the records of both keys to kvs-comp.log,
\* the second time inside the remove of key b, before it wrote anything
StaleDir ==
  Disk(File(Heavy(COMPACTION_THRESHOLD) \o Encode(SetCmd(KeyA, <<120>>)) \o Encode(RmCmd(KeyB))),
       File(Encode(SetCmd(KeyA, <<120>>)) \o Encode(SetCmd(KeyB, <<121, 121>>))))

InitDirs == {Disk(l, NoFile) : l \in InitLogs} \cup {StaleDir}

Init ==
  /\ \E d \in InitDirs : kvs_log = d.kvs /\ comp_log = d.comp
  /\ pc = "closed"
  /\ index = EmptyIndex
  /\ garbage = 0
  /\ detached = FALSE
  /\ orphan = <<>>
  /\ cursor = 0
  /\ last = Call("none", <<>>, <<>>, "Ok", FALSE, "-", "none")
  /\ snap = NoSnap
  /\ closed_view = [valid |-> FALSE, view |-> EmptyIndex, garbage |-> 0, session |-> NoSession]
  /\ session = NoSession
  /\ tomb = {}
  /\ ops = 0
  /\ faults = IF comp_log.exists THEN 1 ELSE 0

Next ==
  \/ \E f \in BOOLEAN : Open(f)
  \/ \E key \in Keys : Get(key)
  \/ \E key \in Keys, value \in Values, w \in -1..MaxPartial : Set(key, value, w)
  \/ \E key \in Keys, w \in -1..MaxPartial : Remove(key, w)
  \/ Close

Spec == Init /\ [][Next]_vars

\* ------------------------------------------------------------ the claims
\* what get returns now for every key of the index
Now == View(index, EngLog(Here, Dir))

\* C1: a set(k, v) that returned Ok is followed by get(k) = v, also when that set
\* ran a compaction before it returned
C1_RoundTrip ==
  (last.op = "set" /\ last.res = "Ok")
    => GetResult(index, EngLog(Here, Dir), last.key) = [res |-> "Some", value |-> last.value]

C1_Witness ==
  /\ last.op = "set" /\ last.res = "Ok" /\ last.compacted = "ok"
  /\ Cardinality(DOMAIN index) = 2
  /\ GetResult(index, EngLog(Here, Dir), last.key).res = "Some"

\* C2: an open that returns Ok after a close finds the keys and values the store
\* held when it was closed
C2_ReplayIdempotence ==
  (last.op = "open" /\ last.res = "Ok" /\ closed_view.valid) => Now = closed_view.view

\* C3: after a compaction that ran to success get returns for every key what it
\* returned just before the compaction, no other key is in the index, and the
\* garbage counter is 0
C3_CompactionCorrect ==
  last.compacted = "ok" => (Now = snap.view /\ garbage = 0)

C3_Witness ==
  /\ last.compacted = "ok"
  /\ last.op = "remove"
  /\ \E k \in DOMAIN snap.view : snap.view[k].res = "Some"

\* C4: a key removed with Ok and not set since is not found by get, and remove
\* of it fails with RmKeyNotFoundError (the key is absent from the index)
C4_Tombstone ==
  \A k \in tomb : /\ GetResult(index, EngLog(Here, Dir), k) = NotFound
                  /\ k \notin DOMAIN index

C4_Witness ==
  /\ last.op = "remove" /\ last.res = "Ok" /\ last.compacted = "ok"
  /\ last.key \in tomb

RECURSIVE ScanLoop(_, _)
\* the records of a log, in file order, up to the first bytes that are no record
ScanLoop(bytes, st) ==
  IF ~Decode(bytes, st.pos).ok THEN st.recs
  ELSE ScanLoop(bytes, CHOOSE r \in {[recs |-> Append(st.recs, Decode(bytes, st.pos).cmd),
                                      pos |-> Decode(bytes, st.pos).next]} : TRUE)
Records(bytes) == ScanLoop(bytes, [recs |-> <<>>, pos |-> 0])

\* the keys and values a sequence of records stands for: a key is held when its
\* last record is a Set, with the value of that Set
LastOf(recs, k) ==
  CHOOSE i \in 1..Len(recs) :
    recs[i].key = k /\ \A j \in (i + 1)..Len(recs) : recs[j].key # k
Meaning(recs) ==
  [k \in {recs[i].key : i \in {j \in 1..Len(recs) :
                                 /\ recs[j].tag = "Set"
                                 /\ \A m \in (j + 1)..Len(recs) : recs[m].key # recs[j].key}}
     |-> [res |-> "Some", value |-> recs[LastOf(recs, k)].value]]

\* the bytes of kvs.log when the last call, an open, started
LogBeforeOpen == IF last.compacted = "none" THEN kvs_log.bytes ELSE snap.kvs

\* C5: open of a log made of complete records followed by a cut record does not
\* fail on the cut record (it returns Ok unless a file-system call fails), and the
\* store it returns holds the keys and values of the complete records
C5_CrashTolerance ==
  (last.op = "open" /\ last.had)
    => /\ last.res \in {"Ok", "IoError"}
       /\ last.res = "Ok" => Now = Meaning(Records(LogBeforeOpen))

C5_Witness ==
  /\ last.op = "open" /\ last.had /\ last.res = "Ok"
  /\ last.compacted = "none"
  /\ PartialTail(kvs_log.bytes)
  /\ Cardinality(DOMAIN index) = 2

\* C6 as claimed: a set that returns Ok on a key already in the index leaves the
\* garbage counter 1 greater than it was
C6_OverwriteAddsOne ==
  [][(last'.op = "set" /\ last'.res = "Ok" /\ last'.key \in DOMAIN index)
       => garbage' = garbage + 1]_vars

\* C6 amended: such a set leaves the counter 1 greater than it was when that is
\* below COMPACTION_THRESHOLD; otherwise the set has run a compaction and the
\* counter is 0
C6_OverwriteAccounting ==
  [][(last'.op = "set" /\ last'.res = "Ok" /\ last'.key \in DOMAIN index)
       => garbage' = IF garbage + 1 < COMPACTION_THRESHOLD THEN garbage + 1 ELSE 0]_vars

C6_Witness ==
  /\ last.op = "set" /\ last.res = "Ok" /\ last.had
  /\ last.compacted = "none"
  /\ garbage > 0

\* C7: remove of a key that is not in the index returns RmKeyNotFoundError and
\* changes neither file, nor the index, nor the garbage counter
C7_RemoveMissing ==
  [][(pc = "open" /\ last'.op = "remove" /\ last'.key \notin DOMAIN index)
       => /\ last'.res = "RmKeyNotFoundError"
          /\ UNCHANGED <<kvs_log, comp_log, orphan, detached, index, garbage>>]_vars

C7_Witness ==
  /\ last.op = "remove" /\ last.res = "RmKeyNotFoundError"
  /\ garbage > 0

\* C8: a compaction that failed has left kvs.log on disk, the index, the bytes
\* behind the log handle and the garbage counter as they were when it started
C8_AllOrNothing ==
  last.compacted = "fail"
    => /\ kvs_log.bytes = snap.kvs
       /\ pc = "open" => /\ index = snap.index
                         /\ garbage = snap.garbage
                         /\ EngLog(Here, Dir) = snap.elog
                         /\ ~detached

\* C9: when a compaction attempt has returned, kvs-comp.log does not exist
C9_NoTransientFile ==
  last.compacted # "none" => ~comp_log.exists

\* C10 as claimed: set returns Ok whenever its append succeeded
C10_OkIfAppended ==
  (last.op = "set" /\ last.append = "ok") => last.res = "Ok"

\* C10 amended: set returns Ok exactly when its append succeeded and the
\* compaction it ran, if any, succeeded
C10_SetReturn ==
  last.op = "set" => (last.res = "Ok" <=> (last.append = "ok" /\ last.compacted # "fail"))

C10_Witness ==
  /\ last.op = "set" /\ last.append = "ok" /\ last.compacted = "fail"
  /\ last.res # "Ok"

\* C11: while a store is open, a key is in the index exactly when the last record
\* for that key in the log of the store is a Set
C11_IndexMembership ==
  pc = "open" => DOMAIN index = DOMAIN Meaning(Records(EngLog(Here, Dir)))

\* the records that a scan of a log decodes from offset pos on
RecordsFrom(bytes, pos) == ScanLoop(bytes, [recs |-> <<>>, pos |-> pos])

\* the record at offset pos of a log is a Set of key k, and no record that
\* follows it is a Set of k
LastSetAt(bytes, k, pos) ==
  /\ Decode(bytes, pos).ok
  /\ Decode(bytes, pos).cmd.tag = "Set"
  /\ Decode(bytes, pos).cmd.key = k
  /\ \A recs \in {RecordsFrom(bytes, pos)} :
       \A i \in 2..Len(recs) : ~(recs[i].tag = "Set" /\ recs[i].key = k)

Unreachable(recs, idx) == Len(recs) - Cardinality(DOMAIN idx)

\* the records of a log that are a Remove, or a Set of a key whose previous
\* record is a Set
Counted(recs) ==
  Cardinality({i \in 1..Len(recs) :
                 \/ recs[i].tag = "Rm"
                 \/ \E j \in 1..(i - 1) :
                      /\ recs[j].key = recs[i].key /\ recs[j].tag = "Set"
                      /\ \A m \in (j + 1)..(i - 1) : recs[m].key # recs[i].key})

\* C13 as stated: after open, set or remove returned Ok the garbage counter is
\* the number of records of the log minus the number of keys of the index
C13_GarbageIsUnreachable ==
  (pc = "open" /\ last.op \in {"open", "set", "remove"} /\ last.res = "Ok")
    => garbage = Unreachable(Records(EngLog(Here, Dir)), index)

\* C13: the counter that the replay of open computes is the number of Remove
\* records plus the number of Set records that replaced an entry of the index,
\* among the records it decoded; after that a remove adds 1, a set adds 1 when
\* its key was in the index and nothing otherwise, and a compaction that
\* succeeds leaves 0
C13_GarbageCounted ==
  [][/\ (last'.op = "open" /\ last'.res = "Ok")
          => /\ (IF last'.compacted = "none" THEN garbage' ELSE snap'.garbage)
                  = Counted(Records(kvs_log.bytes))
             /\ last'.compacted = "ok" => garbage' = 0
     /\ (last'.op = "remove" /\ last'.res = "Ok")
          => garbage' = IF last'.compacted = "ok" THEN 0 ELSE garbage + 1
     /\ (last'.op = "set" /\ last'.res = "Ok")
          => garbage' = IF last'.compacted = "ok" THEN 0
                        ELSE IF last'.had THEN garbage + 1 ELSE garbage]_vars

C13_Witness ==
  /\ pc = "open" /\ last.op = "remove" /\ last.res = "Ok" /\ last.compacted = "none"
  /\ session.whole /\ session.clean
  /\ garbage = Counted(Records(EngLog(Here, Dir)))
  /\ garbage < Unreachable(Records(EngLog(Here, Dir)), index)

\* C14 as stated: whenever open, set or remove returned Ok the garbage counter
\* is below the threshold, and a compaction runs only from a counter at or above it
C14_BelowThreshold ==
  /\ (last.op \in {"open", "set", "remove"} /\ last.res = "Ok")
       => garbage < COMPACTION_THRESHOLD
  /\ last.compacted # "none" => ~(snap.garbage < COMPACTION_THRESHOLD)

\* C14: whenever open or remove returned Ok, or set returned Ok for a key that
\* was in the index, the garbage counter is below the threshold; a compaction
\* runs only from a counter at or above the threshold
C14_Trigger ==
  /\ (/\ last.res = "Ok"
      /\ \/ last.op \in {"open", "remove"}
         \/ last.op = "set" /\ last.had)
       => garbage < COMPACTION_THRESHOLD
  /\ last.compacted # "none" => ~(snap.garbage < COMPACTION_THRESHOLD)

C14_Witness ==
  /\ last.op = "open" /\ last.res = "Ok" /\ last.compacted = "ok"
  /\ ~(snap.garbage < COMPACTION_THRESHOLD) /\ garbage = 0

\* C15: after a compaction that succeeded kvs.log is one Set record per key of
\* the index and nothing else, whatever kvs-comp.log held before: its replay
\* reads it to the last byte and yields the index of the store and garbage 0
C15_CompactedLogExact ==
  last.compacted = "ok"
    => /\ Len(Records(kvs_log.bytes)) = Cardinality(DOMAIN index)
       /\ Replay(kvs_log.bytes, 0, EmptyIndex, 0)
            = [index |-> index, garbage |-> 0, pos |-> Len(kvs_log.bytes), done |-> TRUE]

\* the command that the last call appended to the log
LastCmd == IF last.op = "set" THEN SetCmd(last.key, last.value) ELSE RmCmd(last.key)

\* C16: a set or remove that appended its record and ran no compaction leaves
\* the log of the store as it was, followed by that one record, and a set puts
\* in the index the length the log had before, wherever the cursor of the
\* handle stood
C16_AppendOnly ==
  [][(last'.op \in {"set", "remove"} /\ last'.append = "ok" /\ last'.compacted = "none")
       => /\ EngLog(Here, Dir)' = EngLog(Here, Dir) \o Encode(LastCmd')
          /\ last'.op = "set" => index'[last'.key] = Len(EngLog(Here, Dir))]_vars

C16_Witness ==
  /\ session.partial /\ ops = 2
  /\ last.op = "set" /\ last.append = "ok" /\ last.compacted = "none"
  /\ index[last.key] = Len(EngLog(Here, Dir)) - Len(Encode(LastCmd))
  /\ IsCutRecord(SubSeq(EngLog(Here, Dir), index[last.key] - Len(CutRecord) + 1,
                        index[last.key]))

\* C17: a set or remove whose append to the log failed returns the error and
\* leaves the index and the garbage counter as they were
C17_FailedAppend ==
  [][last'.append = "fail"
       => /\ last'.res = "IoError"
          /\ UNCHANGED <<index, garbage>>]_vars

C17_Witness ==
  /\ pc = "open" /\ last.op = "remove" /\ last.append = "fail" /\ last.res = "IoError"
  /\ last.key \in DOMAIN index
  /\ ~session.clean

\* C18: when the session that was closed began with an open of a log ending in
\* a cut record, the next open that returns Ok finds the keys and values the
\* store held at the close
C18_DurableAfterRecovery ==
  (/\ last.op = "open" /\ last.res = "Ok"
   /\ closed_view.valid /\ closed_view.session.partial)
    => Now = closed_view.view

\* the garbage value with which the replay loop of the last call, an open, ended
ReplayedGarbage == IF last.compacted = "none" THEN garbage ELSE snap.garbage

\* C19: when the session that was closed began with an open whose replay read
\* the log to its last byte, and all its calls returned Ok, the replay of the
\* next open computes the garbage counter the store held at the close
C19_ReplayRecomputes ==
  (/\ last.op = "open" /\ (last.res = "Ok" \/ last.compacted # "none")
   /\ closed_view.valid /\ closed_view.session.whole /\ closed_view.session.clean)
    => ReplayedGarbage = closed_view.garbage

\* C20: a get, of a key of the index or of any other key, leaves both files,
\* the log behind the handle, the index and the garbage counter as they were and
\* runs no compaction; a get that directly follows a get of the same key returns
\* what that one returned
C20_GetReadOnly ==
  [][last'.op = "get"
       => /\ UNCHANGED <<kvs_log, comp_log, detached, orphan, index, garbage>>
          /\ last'.compacted = "none"
          /\ (last.op = "get" /\ last.key = last'.key)
               => (last'.res = last.res /\ last'.value = last.value)]_vars

C20_Witness ==
  /\ pc = "open" /\ last.op = "get" /\ last.res = "Some"
  /\ Cardinality(DOMAIN index) = 2
  /\ cursor < Len(EngLog(Here, Dir))

====
